---- MODULE Spec2Model ----
(***************************************************************************)
(* djangbone: BackboneAPIView (src/djangbone/views.py), a generic REST     *)
(* endpoint over a database table.                                         *)
(*                                                                         *)
(* The backing store is the table behind base_queryset, kept as the        *)
(* sequence of its rows in id order.  Ids are assigned by the database     *)
(* (AutoField): positive, increasing, never reused.  A queryset is lazy:   *)
(* every evaluation (len(qs), bool(qs), values[0], list(values),           *)
(* qs.delete()) reads the table as it is at that moment.                   *)
(*                                                                         *)
(* Two specifications over the same handler steps:                         *)
(*   Spec      one request at a time, each handler run to completion;      *)
(*   SpecConc  NProc requests in flight, interleaving between the data     *)
(*             access calls of their handlers.                             *)
(***************************************************************************)
EXTENDS Integers, Sequences, FiniteSets, TLC

\* ------------------------------------------------------------- bounds
MaxId == 2          \* ids the database hands out: 1..MaxId
MaxPage == 2        \* integer page parameters: -MaxPage..MaxPage
MaxPageSize == 2    \* configured page sizes: 1..MaxPageSize
NProc == 2          \* requests in flight under SpecConc

Names == {"a", "b"}
Procs == 1..NProc

VARIABLES
    store,      \* the table: sequence of rows, in id order
    nextId,     \* the id the database assigns to the next inserted row
    cfg,        \* the view subclass's class attributes (fixed after Init)
    request,    \* Spec: the request handled last
    response,   \* Spec: its response
    deleted,    \* Spec: history, the ids a DELETE has answered 200 for
    procs       \* SpecConc: the requests in flight

vars == <<store, nextId, cfg, request, response, deleted, procs>>

\* ------------------------------------------------------- rows and fields
Row(i, u, pw) == [id |-> i, username |-> u, password |-> pw]
NoRow == Row(0, "", "")

serialize_fields == <<"id", "username">>

\* queryset.values(*serialize_fields): each row projected on the field list
ValuesRow(row) ==
    [f \in {serialize_fields[i] : i \in DOMAIN serialize_fields} |-> row[f]]

values(rows) ==
    IF rows = <<>> THEN <<>> ELSE [i \in 1..Len(rows) |-> ValuesRow(rows[i])]

\* ------------------------------------------------- request parameter values
\* A parameter value (the id kwarg, the page query parameter) is absent, a
\* Python int, a string of digits (with sign), the empty string, or a string
\* that is no number.
Absent == [kind |-> "absent", n |-> 0]
PyInt(k) == [kind |-> "int", n |-> k]
PyStr(k) == [kind |-> "str", n |-> k]
EmptyStr == [kind |-> "empty", n |-> 0]
TextStr == [kind |-> "text", n |-> 0]

\* kwargs.has_key('id')
has_key(v) == v.kind # "absent"

\* Python truth of kwargs.get('id'): None, 0 and '' are false
Truthy(v) ==
    CASE v.kind = "absent" -> FALSE
      [] v.kind = "int" -> v.n # 0
      [] v.kind = "str" -> TRUE
      [] v.kind = "empty" -> FALSE
      [] v.kind = "text" -> TRUE

\* int(v): ValueError on '' and on text
IntOf(v) ==
    CASE v.kind \in {"int", "str"} -> [ok |-> TRUE, n |-> v.n]
      [] OTHER -> [ok |-> FALSE, n |-> 0]

\* ----------------------------------------------------------- data access
\* base_queryset.filter(id=n), evaluated on table st
filter(st, n) == SelectSeq(st, LAMBDA r : r.id = n)

\* values[start:stop] for 0 <= start, 0 <= stop
PySlice(s, start, stop) ==
    SubSeq(s, start + 1, IF stop < Len(s) THEN stop ELSE Len(s))

\* the rows of st without those with id n (qs.delete())
delete_rows(st, n) == SelectSeq(st, LAMBDA r : r.id # n)

\* Model.save() of row: UPDATE the row with its id, INSERT when none has it
RECURSIVE InsertById(_, _)
InsertById(st, row) ==
    IF st = <<>> THEN <<row>>
    ELSE IF Head(st).id > row.id THEN <<row>> \o st
    ELSE <<Head(st)>> \o InsertById(Tail(st), row)

save_row(st, row) ==
    IF filter(st, row.id) # <<>>
    THEN [i \in 1..Len(st) |-> IF st[i].id = row.id THEN row ELSE st[i]]
    ELSE InsertById(st, row)

\* ------------------------------------------------------------ json, forms
JsonUser(u) == "{\"username\": \"" \o u \o "\"}"
JsonWrong == "{\"wrong_field\": \"xyz\"}"
RawBodies == {""} \cup {JsonUser(u) : u \in Names} \cup {JsonWrong}

\* json_decoder.decode(raw): the mapping, or ValueError
decode(raw) ==
    IF \E u \in Names : raw = JsonUser(u)
    THEN [ok |-> TRUE, keys |-> {"username"},
          username |-> CHOOSE u \in Names : raw = JsonUser(u)]
    ELSE IF raw = JsonWrong
    THEN [ok |-> TRUE, keys |-> {"wrong_field"}, username |-> ""]
    ELSE [ok |-> FALSE, keys |-> {}, username |-> ""]

\* form.is_valid() of a ModelForm whose required field is username
is_valid(d) == "username" \in d.keys

\* ---------------------------------------------------------------- responses
NoResponse == [status |-> 0, kind |-> "none", items |-> <<>>, text |-> ""]
HttpResponse(text, status) ==
    [status |-> status, kind |-> "text", items |-> <<>>, text |-> text]
Http404 == [status |-> 404, kind |-> "error", items |-> <<>>, text |-> "Http404"]
\* an exception no handler catches: the hosting server's error response
Uncaught(exc) == [status |-> 500, kind |-> "error", items |-> <<>>, text |-> exc]

NoOutput == [exc |-> "", kind |-> "none", items |-> <<>>]

success_response(output) ==
    [status |-> 200, kind |-> output.kind, items |-> output.items, text |-> ""]

validation_error_response == HttpResponse("ERROR: validation failed", 200)

\* ------------------------------------------------------------- serialize_qs
\* rows: the queryset's rows when values[...] is evaluated.  The result is a
\* json object (items holds the one mapping), a json array, or an exception.
serialize_qs(c, rows, single_object, req) ==
    LET vs == values(rows) IN
    IF single_object \/ Truthy(req.id)
    THEN IF vs = <<>>
         THEN [exc |-> "IndexError", kind |-> "none", items |-> <<>>]
         ELSE [exc |-> "", kind |-> "object", items |-> <<vs[1]>>]
    ELSE IF c.paginated
         THEN LET pn == IF req.page.kind = "absent" THEN [ok |-> TRUE, n |-> 1]
                        ELSE IntOf(req.page)
                  offset == IF pn.ok THEN (pn.n - 1) * c.page_size ELSE 0
              IN IF offset < 0 \/ offset + c.page_size < 0
                 THEN [exc |-> "AssertionError", kind |-> "none", items |-> <<>>]
                 ELSE [exc |-> "", kind |-> "array",
                       items |-> PySlice(vs, offset, offset + c.page_size)]
         ELSE [exc |-> "", kind |-> "array", items |-> vs]

\* ------------------------------------------------------------ handler steps
\* A request in flight: where its handler stands and what it holds.
NewProc(req, label) ==
    [pc |-> label, req |-> req, resp |-> NoResponse,
     new_id |-> 0, instance |-> NoRow, output |-> NoOutput,
     existed |-> FALSE]     \* history: the id matched a row when the request began

World(p, st, nid) == [proc |-> p, store |-> st, nextId |-> nid]

Finish(w, r) == [w EXCEPT !.proc.pc = "done", !.proc.resp = r]
Goto(w, label) == [w EXCEPT !.proc.pc = label]

Respond(w, out) ==
    Finish(w, IF out.exc # "" THEN Uncaught(out.exc) ELSE success_response(out))

get_collection(c, w) ==
    Respond(w, serialize_qs(c, w.store, FALSE, w.proc.req))

get_single_item(c, w) ==
    LET k == IntOf(w.proc.req.id) IN
    IF ~k.ok THEN Finish(w, Uncaught("ValueError"))
    ELSE IF Len(filter(w.store, k.n)) # 1 THEN Finish(w, Http404)
    ELSE Goto(w, "get_single_item_serialize")

get_single_item_serialize(c, w) ==
    Respond(w, serialize_qs(c, filter(w.store, IntOf(w.proc.req.id).n),
                            FALSE, w.proc.req))

get(c, w) ==
    IF Truthy(w.proc.req.id) THEN get_single_item(c, w) ELSE get_collection(c, w)

post(c, w) ==
    LET d == decode(w.proc.req.body) IN
    IF ~c.add_form_class THEN Finish(w, HttpResponse("POST not supported", 405))
    ELSE IF ~d.ok THEN Finish(w, HttpResponse("Invalid POST JSON", 400))
    ELSE IF is_valid(d)
    THEN [Goto(w, "post_serialize") EXCEPT
             !.store = save_row(w.store, Row(w.nextId, d.username, "")),
             !.nextId = w.nextId + 1,
             !.proc.new_id = w.nextId]
    ELSE Finish(w, validation_error_response)

\* post's last line with single_object left out
post_serialize_no_single(c, w) ==
    Respond(w, serialize_qs(c, filter(w.store, w.proc.new_id), FALSE, w.proc.req))

post_serialize(c, w) ==
    Respond(w, serialize_qs(c, filter(w.store, w.proc.new_id), TRUE, w.proc.req))

put(c, w) ==
    LET d == decode(w.proc.req.body)
        k == IntOf(w.proc.req.id)
    IN
    IF ~c.edit_form_class \/ ~has_key(w.proc.req.id)
    THEN Finish(w, HttpResponse("PUT not supported", 405))
    ELSE IF ~d.ok \/ ~k.ok THEN Finish(w, HttpResponse("Invalid PUT JSON", 400))
    ELSE IF filter(w.store, k.n) = <<>> THEN Finish(w, Http404)
    ELSE [Goto(w, "put_save") EXCEPT !.proc.instance = filter(w.store, k.n)[1]]

\* put saving the form before it asks is_valid()
put_save_before_valid(c, w) ==
    LET d == decode(w.proc.req.body)
        saved == [w EXCEPT !.store =
                     save_row(w.store,
                              [w.proc.instance EXCEPT !.username = d.username])]
    IN IF is_valid(d) THEN Goto(saved, "put_serialize")
       ELSE Finish(saved, validation_error_response)

put_save(c, w) ==
    LET d == decode(w.proc.req.body) IN
    IF is_valid(d)
    THEN [Goto(w, "put_serialize") EXCEPT
             !.store = save_row(w.store,
                                [w.proc.instance EXCEPT !.username = d.username])]
    ELSE Finish(w, validation_error_response)

\* put serializing the instance it fetched before the save
put_serialize_stale(c, w) ==
    Respond(w, serialize_qs(c, <<w.proc.instance>>, TRUE, w.proc.req))

put_serialize(c, w) ==
    Respond(w, serialize_qs(c, filter(w.store, w.proc.instance.id), TRUE,
                            w.proc.req))

delete(c, w) ==
    LET k == IntOf(w.proc.req.id) IN
    IF ~has_key(w.proc.req.id)
    THEN Finish(w, HttpResponse("DELETE is not supported for collections", 405))
    ELSE IF ~k.ok THEN Finish(w, Uncaught("ValueError"))
    ELSE IF filter(w.store, k.n) # <<>> THEN Goto(w, "delete_serialize")
    ELSE Finish(w, Http404)

delete_serialize(c, w) ==
    LET out == serialize_qs(c, filter(w.store, IntOf(w.proc.req.id).n),
                            FALSE, w.proc.req)
    IN IF out.exc # "" THEN Finish(w, Uncaught(out.exc))
       ELSE [Goto(w, "delete_delete") EXCEPT !.proc.output = out]

\* delete on the base queryset instead of the filtered one
delete_delete_all(c, w) ==
    [Finish(w, success_response(w.proc.output)) EXCEPT !.store = <<>>]

delete_delete(c, w) ==
    [Finish(w, success_response(w.proc.output)) EXCEPT
        !.store = delete_rows(w.store, IntOf(w.proc.req.id).n)]

\* View.dispatch: the handler named after the verb
dispatch(verb) ==
    CASE verb = "GET" -> "get"
      [] verb = "POST" -> "post"
      [] verb = "PUT" -> "put"
      [] verb = "DELETE" -> "delete"

\* one data-access step of the handler of w.proc
HandlerStep(c, w) ==
    CASE w.proc.pc = "get" -> get(c, w)
      [] w.proc.pc = "get_single_item_serialize" -> get_single_item_serialize(c, w)
      [] w.proc.pc = "post" -> post(c, w)
      [] w.proc.pc = "post_serialize" -> post_serialize(c, w)
      [] w.proc.pc = "put" -> put(c, w)
      [] w.proc.pc = "put_save" -> put_save(c, w)
      [] w.proc.pc = "put_serialize" -> put_serialize(c, w)
      [] w.proc.pc = "delete" -> delete(c, w)
      [] w.proc.pc = "delete_serialize" -> delete_serialize(c, w)
      [] w.proc.pc = "delete_delete" -> delete_delete(c, w)

\* the handler run to completion, nothing else touching the table
RECURSIVE RunHandler(_, _)
RunHandler(c, w) ==
    IF w.proc.pc = "done" THEN w ELSE RunHandler(c, HandlerStep(c, w))

\* ------------------------------------------------------------------ inputs
IdParams ==
    {Absent, EmptyStr, TextStr}
        \cup {PyInt(k) : k \in 0..MaxId} \cup {PyStr(k) : k \in 0..MaxId}
PageParams == {Absent, EmptyStr, TextStr} \cup {PyStr(k) : k \in -MaxPage..MaxPage}

Req(verb, id, page, body) ==
    [verb |-> verb, id |-> id, page |-> page, body |-> body]
NoRequest == Req("", Absent, Absent, "")

\* the page parameter is read only when the id is missing or false
GetRequests ==
    {Req("GET", i, pg, "") : i \in {Absent, EmptyStr, PyInt(0)}, pg \in PageParams}
        \cup {Req("GET", i, Absent, "") : i \in IdParams}
PostRequests == {Req("POST", Absent, Absent, b) : b \in RawBodies}
PutRequests == {Req("PUT", i, Absent, b) : i \in IdParams, b \in RawBodies}
DeleteRequests == {Req("DELETE", i, Absent, "") : i \in IdParams}

Configs ==
    {[add_form_class |-> a, edit_form_class |-> e, paginated |-> FALSE,
      page_size |-> 0] : a, e \in BOOLEAN}
        \cup {[add_form_class |-> a, edit_form_class |-> e, paginated |-> TRUE,
               page_size |-> s] : a, e \in BOOLEAN, s \in 1..MaxPageSize}

\* SpecConc: requests routed by a urlconf that captures a string of digits
ConcIds == {PyStr(k) : k \in 1..MaxId}
ConcRequests ==
    {Req("GET", i, Absent, "") : i \in ConcIds \cup {Absent}}
        \cup {Req("POST", Absent, Absent, JsonUser("b"))}
        \cup {Req("PUT", i, Absent, b) : i \in ConcIds, b \in {JsonUser("b"), JsonWrong}}
        \cup {Req("DELETE", i, Absent, "") : i \in ConcIds}

IdleProc == NewProc(NoRequest, "idle")

\* ------------------------------------------------------------------- Init
\* An empty table, or the one user of the tests' setUp.
Init ==
    /\ \/ store = <<>> /\ nextId = 1
       \/ store = <<Row(1, "a", "pw")>> /\ nextId = 2
    /\ cfg \in Configs
    /\ request = NoRequest
    /\ response = NoResponse
    /\ deleted = {}
    /\ procs = [p \in Procs |-> IdleProc]

\* ------------------------------------------------- Spec: one request at a time
\* the handler of req run to completion on the current table
Handled(req) ==
    RunHandler(cfg, World(NewProc(req, dispatch(req.verb)), store, nextId))

Get ==
    \E req \in GetRequests :
        \E w \in {Handled(req)} :
        /\ request' = req
        /\ response' = w.proc.resp
        /\ store' = w.store
        /\ nextId' = w.nextId
        /\ UNCHANGED <<deleted, cfg, procs>>

Post ==
    \E req \in PostRequests :
        \E w \in {Handled(req)} :
        /\ w.nextId <= MaxId + 1
        /\ request' = req
        /\ response' = w.proc.resp
        /\ store' = w.store
        /\ nextId' = w.nextId
        /\ UNCHANGED <<deleted, cfg, procs>>

Put ==
    \E req \in PutRequests :
        \E w \in {Handled(req)} :
        /\ request' = req
        /\ response' = w.proc.resp
        /\ store' = w.store
        /\ nextId' = w.nextId
        /\ UNCHANGED <<deleted, cfg, procs>>

Delete ==
    \E req \in DeleteRequests :
        \E w \in {Handled(req)} :
        /\ request' = req
        /\ response' = w.proc.resp
        /\ store' = w.store
        /\ nextId' = w.nextId
        /\ deleted' = IF w.proc.resp.status = 200
                      THEN deleted \cup {IntOf(req.id).n} ELSE deleted
        /\ UNCHANGED <<cfg, procs>>

Next == Get \/ Post \/ Put \/ Delete

Spec == Init /\ [][Next]_vars

\* ------------------------------------------- SpecConc: requests in flight
\* a request arrives at worker p
Begin(p) ==
    /\ procs[p].pc = "idle"
    /\ \E req \in ConcRequests :
           procs' = [procs EXCEPT ![p] =
                        [NewProc(req, dispatch(req.verb)) EXCEPT
                            !.existed = has_key(req.id)
                                        /\ filter(store, IntOf(req.id).n) # <<>>]]
    /\ UNCHANGED <<store, nextId, cfg, request, response, deleted>>

\* worker p's handler runs up to and including its next data access call
Step(p) ==
    /\ procs[p].pc \notin {"idle", "done"}
    /\ LET w == HandlerStep(cfg, World(procs[p], store, nextId)) IN
       /\ w.nextId <= MaxId + 1
       /\ procs' = [procs EXCEPT ![p] = w.proc]
       /\ store' = w.store
       /\ nextId' = w.nextId
    /\ UNCHANGED <<cfg, request, response, deleted>>

NextConc == \E p \in Procs : Begin(p) \/ Step(p)

SpecConc == Init /\ [][NextConc]_vars

\* ------------------------------------------------------------ properties
Range(sq) == {sq[i] : i \in DOMAIN sq}
Ids(st) == {r.id : r \in Range(st)}

\* the rows an id parameter matches: none when it is no number
Matching(st, v) == IF IntOf(v).ok THEN filter(st, IntOf(v).n) ELSE <<>>

\* what a row looks like in a response: the configured fields, nothing else
Serialized(row) == [id |-> row.id, username |-> row.username]
ObjectResponse(row) ==
    [status |-> 200, kind |-> "object", items |-> <<Serialized(row)>>, text |-> ""]

\* C1: a DELETE whose id matches an existing entity answers 200 with that
\* entity's serialized pre-deletion state and removes exactly that record,
\* every other record staying as it was; every later DELETE with the same id
\* answers 404 and removes nothing.
C1_DeleteOnce ==
    [][request'.verb = "DELETE" =>
          LET m == Matching(store, request'.id) IN
          /\ m # <<>> =>
                /\ response' = ObjectResponse(m[1])
                /\ Range(store') = Range(store) \ {m[1]}
                /\ Len(store') = Len(store) - 1
          /\ (IntOf(request'.id).ok /\ IntOf(request'.id).n \in deleted) =>
                /\ m = <<>>
                /\ response'.status = 404
                /\ store' = store]_vars

C1_Witness ==
    /\ request.verb = "DELETE"
    /\ IntOf(request.id).ok
    /\ IntOf(request.id).n \in deleted
    /\ response.status = 404
    /\ store # <<>>

\* C2: every GET, every 405, 400 and 404 response, and every POST or PUT that
\* ends with the validation-failure body leaves the backing store as it was.
C2_NoWriteFrame ==
    [][(\/ request'.verb = "GET"
        \/ response'.status \in {400, 404, 405}
        \/ /\ request'.verb \in {"POST", "PUT"}
           /\ response' = validation_error_response)
       => store' = store /\ nextId' = nextId]_vars

C2_Witness ==
    /\ request.verb = "PUT"
    /\ response = validation_error_response
    /\ Len(store) = MaxId

\* C3: a POST to an endpoint with a create-validator, whose body is valid JSON
\* that passes validation, adds exactly one record, leaves every earlier
\* record unchanged, and answers 200 with the single object that serializes
\* the new record with all configured fields.
C3_PostCreates ==
    [][(/\ request'.verb = "POST"
        /\ cfg.add_form_class
        /\ decode(request'.body).ok
        /\ is_valid(decode(request'.body)))
       => /\ Len(store') = Len(store) + 1
          /\ Range(store) \subseteq Range(store')
          /\ \E row \in Range(store') \ Range(store) :
                /\ row.id \notin Ids(store)
                /\ row.username = decode(request'.body).username
                /\ response' = ObjectResponse(row)
                /\ DOMAIN response'.items[1] = Range(serialize_fields)]_vars

C3_Witness ==
    /\ request.verb = "POST"
    /\ response.status = 200
    /\ response.kind = "object"
    /\ Len(store) = MaxId

\* C4: a PUT with the id of an existing entity, an edit-validator configured
\* and a valid-JSON body that passes validation changes only the targeted
\* record (the ids in the store and every other record stay) and answers 200
\* with the single object that serializes the targeted record after the update.
C4_PutUpdatesOne ==
    [][(/\ request'.verb = "PUT"
        /\ cfg.edit_form_class
        /\ Matching(store, request'.id) # <<>>
        /\ decode(request'.body).ok
        /\ is_valid(decode(request'.body)))
       => LET i == IntOf(request'.id).n IN
          /\ Len(store') = Len(store)
          /\ \A j \in DOMAIN store :
                /\ store'[j].id = store[j].id
                /\ store[j].id # i => store'[j] = store[j]
          /\ filter(store', i)[1].username = decode(request'.body).username
          /\ response' = ObjectResponse(filter(store', i)[1])]_vars

C4_Witness ==
    /\ request.verb = "PUT"
    /\ response.status = 200
    /\ response.kind = "object"
    /\ Len(store) = MaxId
    /\ \E r \in Range(store) :
          r.id = IntOf(request.id).n /\ r.username = "b" /\ r.password = "pw"

\* C5: for every verb and every id value supplied as the id path parameter
\* (0 and the other false values included), a request that has an id and
\* produces a serialized body produces a single mapping, never a sequence.
C5_IdGivesSingleMapping ==
    (has_key(request.id) /\ response.kind \in {"object", "array"})
        => response.kind = "object" /\ Len(response.items) = 1

PositionsOf(s, offset, size) ==
    LET lo == IF offset < 0 THEN 0 ELSE offset
        hi == IF offset + size > Len(s) THEN Len(s) ELSE offset + size
    IN IF hi <= lo THEN <<>> ELSE [j \in 1..(hi - lo) |-> s[lo + j]]

SerializedAll(st) ==
    IF st = <<>> THEN <<>> ELSE [j \in 1..Len(st) |-> Serialized(st[j])]

\* the page number the page parameter stands for: 1 when absent or no number
PageNumber(v) == IF v.kind = "str" THEN v.n ELSE 1

\* C7: a GET without id always answers 200 with an array: the whole base
\* collection in store order when no page size is configured, and with page
\* size S, for every value of the page parameter (absent, non-numeric, any
\* integer, zero and negatives included), the entities at zero-based positions
\* offset .. offset+S-1 that exist, offset = (page_number - 1) * S.
C7_CollectionGet ==
    (request.verb = "GET" /\ ~has_key(request.id))
        => /\ response.status = 200
           /\ response.kind = "array"
           /\ response.items =
                 IF cfg.paginated
                 THEN PositionsOf(SerializedAll(store),
                                  (PageNumber(request.page) - 1) * cfg.page_size,
                                  cfg.page_size)
                 ELSE SerializedAll(store)

\* C8: the write handlers apply their checks in a fixed order and the first
\* failing check decides the response.  PUT: 405 without edit-validator or
\* without id, else 400 when the body is no valid JSON, else 404 when the id
\* matches no entity (for every id value that matches nothing), else the
\* validation outcome.  POST: 405 without create-validator, else 400 when the
\* body is no valid JSON, else the validation outcome.
\* (Neither a PUT nor a failed check changes which ids the table holds.)
C8_WriteCheckOrder ==
    /\ request.verb = "PUT" =>
          IF ~cfg.edit_form_class \/ ~has_key(request.id)
          THEN response.status = 405
          ELSE IF ~decode(request.body).ok THEN response.status = 400
          ELSE IF Matching(store, request.id) = <<>> THEN response.status = 404
          ELSE IF is_valid(decode(request.body))
          THEN response.status = 200 /\ response.kind = "object"
          ELSE response = validation_error_response
    /\ request.verb = "POST" =>
          IF ~cfg.add_form_class THEN response.status = 405
          ELSE IF ~decode(request.body).ok THEN response.status = 400
          ELSE IF is_valid(decode(request.body))
          THEN response.status = 200 /\ response.kind = "object"
          ELSE response = validation_error_response

\* C9: with requests interleaving between their data access calls, a handler
\* whose entity a concurrent DELETE removes between its existence check (or
\* save) and its read for serialization still ends with 200 and the entity's
\* single object or with 404, never with the uncaught error of taking the
\* first element of an empty result.
C9_NoIndexError ==
    \A p \in Procs :
        procs[p].pc = "done" =>
            /\ procs[p].resp # Uncaught("IndexError")
            /\ (has_key(procs[p].req.id) /\ procs[p].req.verb \in {"GET", "DELETE"})
                  => \/ procs[p].resp.status = 404
                     \/ procs[p].resp.status = 200 /\ procs[p].resp.kind = "object"

\* C10: among concurrent DELETE requests for the same existing id, exactly one
\* answers 200 with the pre-deletion snapshot and every other one answers 404.
C10_OneDeleteWins ==
    \A i \in 1..MaxId :
        (\A p \in Procs :
            /\ procs[p].pc = "done"
            /\ procs[p].req.verb = "DELETE"
            /\ IntOf(procs[p].req.id).n = i
            /\ procs[p].existed)
        => \E p \in Procs :
              /\ procs[p].resp.status = 200
              /\ procs[p].resp.kind = "object"
              /\ \A q \in Procs \ {p} : procs[q].resp.status = 404

====
